---- MODULE Spec2Model ----
(***************************************************************************)
(* Model of CDRProcessor (src/CDRProcessor.py): a directory of "cdr"/"cmr" *)
(* record files is read into a schema per record type and a flat list of   *)
(* typed records.                                                          *)
(*                                                                         *)
(* Text (file names, type tags, raw field values) is a sequence of         *)
(* one-character strings, so prefix, substring, case and integer parsing   *)
(* are computed.  A Python dict is a sequence of <<key, value>> pairs with *)
(* distinct keys, in insertion order.                                      *)
(***************************************************************************)
EXTENDS Integers, Sequences, FiniteSets, TLC

\* ------------------------------------------------------------------ bounds
MaxFiles == 2      \* files in the directory
MaxFileList == 3   \* a run starts only while the processed-file list is shorter
MaxFields == 2     \* entries of a header line or a data row (SpecFields)

\* ------------------------------------------------------------- dict helpers
Min(a, b) == IF a <= b THEN a ELSE b

DictKeys(d) == [k \in 1..Len(d) |-> d[k][1]]

DictHas(d, key) == \E k \in 1..Len(d) : d[k][1] = key

DictGet(d, key) == d[CHOOSE k \in 1..Len(d) : d[k][1] = key][2]

\* DictSet keeping the value of an existing key
DictSetDefault(d, key, value) ==
    IF DictHas(d, key) THEN d ELSE Append(d, <<key, value>>)

\* d[key] = value : an existing key keeps its position, a new key goes last
DictSet(d, key, value) ==
    IF DictHas(d, key)
    THEN [k \in 1..Len(d) |-> IF d[k][1] = key THEN <<key, value>> ELSE d[k]]
    ELSE Append(d, <<key, value>>)

RECURSIVE DictZipFrom(_, _, _, _)
DictZipFrom(keys, values, k, acc) ==
    IF k > Min(Len(keys), Len(values)) THEN acc
    ELSE DictZipFrom(keys, values, k + 1, DictSet(acc, keys[k], values[k]))

\* dict(zip(keys, values))
DictZip(keys, values) == DictZipFrom(keys, values, 1, <<>>)

\* ------------------------------------------------------------- text helpers
UpperAlpha == <<"A","B","C","D","E","F","G","H","I","J","K","L","M",
                "N","O","P","Q","R","S","T","U","V","W","X","Y","Z">>
LowerAlpha == <<"a","b","c","d","e","f","g","h","i","j","k","l","m",
                "n","o","p","q","r","s","t","u","v","w","x","y","z">>
Digits == <<"0","1","2","3","4","5","6","7","8","9">>
Whitespace == {" ", "\t", "\n", "\r"}

\* str.lower()
LowerChar(c) ==
    IF \E k \in 1..Len(UpperAlpha) : UpperAlpha[k] = c
    THEN LowerAlpha[CHOOSE k \in 1..Len(UpperAlpha) : UpperAlpha[k] = c]
    ELSE c
Lower(s) == [k \in 1..Len(s) |-> LowerChar(s[k])]

\* str.startswith(p)
StartsWith(s, p) == Len(s) >= Len(p) /\ SubSeq(s, 1, Len(p)) = p

\* p in s
Contains(s, p) ==
    \E k \in 1..(Len(s) - Len(p) + 1) : SubSeq(s, k, k + Len(p) - 1) = p

\* os.path.splitext(name)[1] of a bare file name: the text from the last
\* dot on, unless only dots come before that dot
SplitExt(name) ==
    LET dots == {k \in 1..Len(name) : name[k] = "."}
    IN  IF dots = {} THEN <<>>
        ELSE LET last == CHOOSE k \in dots : \A j \in dots : j <= k
             IN  IF \E j \in 1..(last - 1) : name[j] # "."
                 THEN SubSeq(name, last, Len(name))
                 ELSE <<>>

IsDigit(c) == \E k \in 1..Len(Digits) : Digits[k] = c
DigitVal(c) == (CHOOSE k \in 1..Len(Digits) : Digits[k] = c) - 1

\* str.strip()
RECURSIVE LStrip(_)
LStrip(s) == IF s # <<>> /\ Head(s) \in Whitespace THEN LStrip(Tail(s)) ELSE s
RECURSIVE RStrip(_)
RStrip(s) ==
    IF s # <<>> /\ s[Len(s)] \in Whitespace
    THEN RStrip(SubSeq(s, 1, Len(s) - 1)) ELSE s
Strip(s) == RStrip(LStrip(s))

\* the digits part of an int() literal: after stripping and an optional sign
IntBody(s) ==
    LET t == Strip(s)
    IN  IF t # <<>> /\ Head(t) \in {"+", "-"} THEN Tail(t) ELSE t

IntNegative(s) == LET t == Strip(s) IN t # <<>> /\ Head(t) = "-"

\* int(s) succeeds: decimal digits, single underscores only between digits
IntParses(s) ==
    LET b == IntBody(s)
    IN  /\ b # <<>>
        /\ \A k \in 1..Len(b) : IsDigit(b[k]) \/ b[k] = "_"
        /\ IsDigit(b[1]) /\ IsDigit(b[Len(b)])
        /\ \A k \in 1..(Len(b) - 1) : ~(b[k] = "_" /\ b[k + 1] = "_")

RECURSIVE DigitsValue(_, _)
DigitsValue(b, acc) ==
    IF b = <<>> THEN acc
    ELSE IF Head(b) = "_" THEN DigitsValue(Tail(b), acc)
    ELSE DigitsValue(Tail(b), 10 * acc + DigitVal(Head(b)))

\* int(s), where IntParses(s)
IntOf(s) ==
    IF IntNegative(s) THEN 0 - DigitsValue(IntBody(s), 0)
    ELSE DigitsValue(IntBody(s), 0)

\* str(n) of a natural number
RECURSIVE DecStr(_)
DecStr(n) ==
    IF n < 10 THEN <<Digits[n + 1]>>
    ELSE Append(DecStr(n \div 10), Digits[(n % 10) + 1])

\* "{:02d}" of a natural number
Pad2(n) == IF n < 10 THEN <<"0">> \o DecStr(n) ELSE DecStr(n)

\* -------------------------------------------------------- record values
\* a coerced value: int, str or None
IntValue(n) == [kind |-> "int", val |-> <<n>>]
StrValue(s) == [kind |-> "str", val |-> s]
NoneValue == [kind |-> "None", val |-> <<>>]

\* ------------------------------------------------------------ text used
KEY_DATA == "data"
KEY_SCHEMAS == "schemas"

cdr == <<"c","d","r">>
cmr == <<"c","m","r">>
INTEGER == <<"I","N","T","E","G","E","R">>
STRINGTAG == <<"S","T","R","I","N","G">>
BIGINTEGER == <<"B","I","G">> \o INTEGER
id == <<"i","d">>
name == <<"n","a","m","e">>
alice == <<"a","l","i","c","e">>

\* ------------------------------------------------------ the input files
\* A file: its name, its lines as csv.reader yields them (two header lines,
\* then the data rows) and `bad`, the number of the first line whose bytes
\* do not decode (0: every line decodes).
File(n, l, b) == [name |-> n, lines |-> l, bad |-> b]

Files ==
    { File(cdr, << <<id, name>>, <<INTEGER, STRINGTAG>>,
                   <<<<"4","2">>, alice>> >>, 0),
      File(cmr \o cdr, << <<name, id>>, <<STRINGTAG, INTEGER>>,
                   <<alice, <<"7">>>>, <<<<>>, <<"0">>>>, <<>> >>, 0),
      File(cmr, << <<id>>, <<BIGINTEGER>>, <<<<"7">>>> >>, 0),
      File(cdr \o <<"b">>, << <<id, name>>, <<INTEGER, STRINGTAG>>,
                   <<<<"0">>, <<>>>>, <<<<"x">>, alice>> >>, 4),
      File(cdr \o <<"e">>, <<>>, 0),
      File(cmr \o <<"h">>, << <<id>>, <<INTEGER>> >>, 0),
      File(<<"C","d","r">>, << <<id>>, <<INTEGER>>, <<<<"7">>>> >>, 0),
      File(cdr \o <<".","x">>, << <<id>>, <<INTEGER>>, <<<<"7">>>> >>, 0),
      File(<<"x">>, << <<id>>, <<INTEGER>>, <<<<"7">>>> >>, 0) }

SeqsUpTo(S, n) == UNION {[1..k -> S] : k \in 0..n}

\* a directory in listing order: no two entries share a name
Directories ==
    {d \in SeqsUpTo(Files, MaxFiles) :
        \A j, k \in 1..Len(d) : d[j].name = d[k].name => j = k}

\* one matched file: every header line and one data row out of small sets
FieldNames == {id, name}
TypeTags == {INTEGER, STRINGTAG}
RawValues == {<<>>, <<"0">>, <<"4","2">>, <<"-","7">>, alice}

FieldDirectories ==
    {<<File(cdr, <<names, types, row>>, 0)>> :
        names \in SeqsUpTo(FieldNames, MaxFields),
        types \in SeqsUpTo(TypeTags, MaxFields),
        row \in SeqsUpTo(RawValues, MaxFields)}

\* the UTC clock readings get_timestamp can see
Times ==
    { [year |-> 2026, month |-> 11, day |-> 4, hour |-> 9, minute |-> 5,
       second |-> s] : s \in {7} }

\* ---------------------------------------------------------------- state
VARIABLES
    dir,                \* the directory __dir_path names: files in listing order
    trim_empty_fields,  \* __trim_empty_fields
    data_schema,        \* __data_schema : dict record type -> schema
    data_list,          \* __data_list
    file_list,          \* __file_list
    timestamp,          \* __timestamp
    pc,                 \* "idle", or "processing" inside process_directory
    pd_file_list,       \* process_directory's local file_list
    pd_index,           \* position of its for loop in pd_file_list
    outcome,            \* the last finished call: what it raised or returned
    out_files,          \* the files written: a set of <<name, lines>>
    last_run            \* <<>>, or <<r>> : r records the last run that ended

vars == <<dir, trim_empty_fields, data_schema, data_list, file_list, timestamp,
          pc, pd_file_list, pd_index, outcome, out_files, last_run>>

Outcome(op, exc, value) == [op |-> op, exc |-> exc, value |-> value]

\* __init__
Init ==
    /\ dir \in Directories
    /\ trim_empty_fields \in BOOLEAN
    /\ data_schema = <<>>
    /\ data_list = <<>>
    /\ file_list = <<>>
    /\ timestamp = <<>>
    /\ pc = "idle"
    /\ pd_file_list = <<>>
    /\ pd_index = 1
    /\ outcome = Outcome("__init__", "", <<>>)
    /\ out_files = {}
    /\ last_run = <<>>

InitFields ==
    /\ dir \in FieldDirectories
    /\ trim_empty_fields \in BOOLEAN
    /\ data_schema = <<>>
    /\ data_list = <<>>
    /\ file_list = <<>>
    /\ timestamp = <<>>
    /\ pc = "idle"
    /\ pd_file_list = <<>>
    /\ pd_index = 1
    /\ outcome = Outcome("__init__", "", <<>>)
    /\ out_files = {}
    /\ last_run = <<>>

\* ------------------------------------------------------------ operations
\* the filter of __get_file_list
IsRecordFile(file_name) ==
    /\ StartsWith(file_name, cdr) \/ StartsWith(file_name, cmr)
    /\ SplitExt(file_name) = <<>>

\* __get_file_list : the names os.listdir gives that pass the filter
get_file_list(d) ==
    LET names == [k \in 1..Len(d) |-> d[k].name]
    IN  SelectSeq(names, IsRecordFile)

\* __get_record_type with its two tests in the other order
get_record_type_cmr_first(file_name) ==
    IF Contains(Lower(file_name), cmr) THEN 2
    ELSE IF Contains(Lower(file_name), cdr) THEN 1
    ELSE 0

\* __get_record_type
get_record_type(file_name) ==
    IF Contains(Lower(file_name), cdr) THEN 1
    ELSE IF Contains(Lower(file_name), cmr) THEN 2
    ELSE 0

\* convert_field keeping the raw text of an integer field that does not parse
convert_field_keep_raw(out_dict, key, value, current_schema, trim) ==
    LET value_type == DictGet(current_schema, key)
    IN  IF trim /\ value \in {<<"0">>, <<>>} THEN out_dict
        ELSE IF Contains(value_type, INTEGER)
             THEN IF IntParses(value)
                  THEN DictSet(out_dict, key, IntValue(IntOf(value)))
                  ELSE IF value = <<>>
                       THEN DictSet(out_dict, key, NoneValue)
                       ELSE DictSet(out_dict, key, StrValue(value))
             ELSE DictSet(out_dict, key, StrValue(value))

\* one field of __convert_values: out_dict after the field <<key, value>>
convert_field(out_dict, key, value, current_schema, trim) ==
    LET value_type == DictGet(current_schema, key)
    IN  IF trim /\ value \in {<<"0">>, <<>>} THEN out_dict
        ELSE IF Contains(value_type, INTEGER)
             THEN IF IntParses(value)
                  THEN DictSet(out_dict, key, IntValue(IntOf(value)))
                  ELSE IF value = <<>>
                       THEN DictSet(out_dict, key, NoneValue)
                       ELSE out_dict
             ELSE DictSet(out_dict, key, StrValue(value))

RECURSIVE convert_from(_, _, _, _, _)
convert_from(in_dict, current_schema, trim, k, out_dict) ==
    IF k > Len(in_dict) THEN out_dict
    ELSE convert_from(in_dict, current_schema, trim, k + 1,
             convert_field(out_dict, in_dict[k][1], in_dict[k][2],
                           current_schema, trim))

\* __convert_values
convert_values(in_dict, current_schema, trim) ==
    convert_from(in_dict, current_schema, trim, 1, <<>>)

\* file_schema = dict(zip(header_name_list, header_type_list))
file_schema_of(f) == DictZip(f.lines[1], f.lines[2])

\* row_schema taking the schema stored for the record type
row_schema_stored(file_schema, stored_schema) == stored_schema

\* the schema a row of the file is zipped with and converted by, given the
\* file's own schema and the one stored for its record type
row_schema(file_schema, stored_schema) == file_schema

\* data_item of one row, zipped with and converted by schema
data_item_of(row, schema, trim) ==
    convert_values(DictZip(DictKeys(schema), row), schema, trim)

\* rows_read leaving out the blank lines
rows_read_nonblank(f) ==
    LET last == IF f.bad = 0 THEN Len(f.lines) ELSE f.bad - 1
    IN  SelectSeq(SubSeq(f.lines, 3, last), LAMBDA row : row # <<>>)

\* the data rows the for loop reaches: all of them, or those before line bad
rows_read(f) ==
    LET last == IF f.bad = 0 THEN Len(f.lines) ELSE f.bad - 1
    IN  SubSeq(f.lines, 3, last)

\* the data items appended for one file
data_items_of(f, stored_schema, trim) ==
    LET rows == rows_read(f)
        schema == row_schema(file_schema_of(f), stored_schema)
    IN  [k \in 1..Len(rows) |-> data_item_of(rows[k], schema, trim)]

\* store_schema without its test: every file's schema replaces the stored one
store_schema_always(schemas, record_type, file_schema) ==
    DictSet(schemas, record_type, file_schema)

\* if record_type not in self.__data_schema.keys(): store file_schema
store_schema(schemas, record_type, file_schema) ==
    IF ~DictHas(schemas, record_type)
    THEN DictSet(schemas, record_type, file_schema)
    ELSE schemas

\* clear leaving the collection as it is
clear_nothing(collection) == collection

\* collection.clear()
clear(collection) == <<>>

\* what reading one file raises: the two next() calls are outside the try,
\* and the handler of a row's UnicodeDecodeError names an undefined `reader`
file_raises(f) ==
    IF f.bad = 1 THEN "UnicodeDecodeError"
    ELSE IF Len(f.lines) < 1 THEN "StopIteration"
    ELSE IF f.bad = 2 THEN "UnicodeDecodeError"
    ELSE IF Len(f.lines) < 2 THEN "StopIteration"
    ELSE IF f.bad > 2 THEN "NameError"
    ELSE ""

\* open(os.path.join(dir_path, file_name))
FileNamed(d, file_name) == d[CHOOSE k \in 1..Len(d) : d[k].name = file_name]

\* what a run that ends leaves to compare later calls with: the directory it
\* read, what it raised, its result, and whether the run before it read the
\* same directory and whether that run left records
RunRecord(d, exc, schemas, data) ==
    <<[dir |-> d, exc |-> exc, schemas |-> schemas, data |-> data,
       again |-> last_run # <<>> /\ last_run[1].dir = d,
       after_data |-> last_run # <<>> /\ last_run[1].data # <<>>]>>

\* process_directory, up to its for loop
process_directory_begin ==
    /\ pc = "idle"
    /\ Len(file_list) < MaxFileList
    /\ data_schema' = clear(data_schema)
    /\ data_list' = clear(data_list)
    /\ pd_file_list' = get_file_list(dir)
    /\ pd_index' = 1
    /\ pc' = "processing"
    /\ UNCHANGED <<dir, trim_empty_fields, file_list, timestamp, outcome,
                   out_files, last_run>>

\* one iteration of the for loop of process_directory
process_file ==
    /\ pc = "processing"
    /\ pd_index <= Len(pd_file_list)
    /\ LET file_name == pd_file_list[pd_index]
           record_type == get_record_type(file_name)
           f == FileNamed(dir, file_name)
           exc == file_raises(f)
           header_read == exc \in {"", "NameError"}
           schemas == IF header_read
                      THEN store_schema(data_schema, record_type,
                                        file_schema_of(f))
                      ELSE data_schema
           data == IF header_read
                   THEN data_list \o
                        data_items_of(f, DictGet(schemas, record_type),
                                      trim_empty_fields)
                   ELSE data_list
       IN  /\ data_schema' = schemas
           /\ data_list' = data
           /\ IF exc = ""
              THEN /\ file_list' = Append(file_list, file_name)
                   /\ pd_index' = pd_index + 1
                   /\ UNCHANGED <<pc, outcome, last_run>>
              ELSE /\ pc' = "idle"
                   /\ outcome' = Outcome("process_directory", exc, <<>>)
                   /\ last_run' = RunRecord(dir, exc, schemas, data)
                   /\ UNCHANGED <<file_list, pd_index>>
    /\ UNCHANGED <<dir, trim_empty_fields, timestamp, pd_file_list, out_files>>

\* process_directory returns when the for loop is exhausted
process_directory_return ==
    /\ pc = "processing"
    /\ pd_index > Len(pd_file_list)
    /\ pc' = "idle"
    /\ outcome' = Outcome("process_directory", "", <<>>)
    /\ last_run' = RunRecord(dir, "", data_schema, data_list)
    /\ UNCHANGED <<dir, trim_empty_fields, data_schema, data_list, file_list,
                   timestamp, pd_file_list, pd_index, out_files>>

\* get_data raising also when a single record was accumulated
get_data_outcome_one(list, schemas) ==
    IF Len(list) <= 1
    THEN Outcome("get_data", "Exception", <<>>)
    ELSE Outcome("get_data", "",
             << <<KEY_DATA, list>>, <<KEY_SCHEMAS, schemas>> >>)

\* what get_data raises or returns
get_data_outcome(list, schemas) ==
    IF Len(list) = 0
    THEN Outcome("get_data", "Exception", <<>>)
    ELSE Outcome("get_data", "",
             << <<KEY_DATA, list>>, <<KEY_SCHEMAS, schemas>> >>)

\* get_data
get_data ==
    /\ pc = "idle"
    /\ outcome' = get_data_outcome(data_list, data_schema)
    /\ UNCHANGED <<dir, trim_empty_fields, data_schema, data_list, file_list,
                   timestamp, pc, pd_file_list, pd_index, out_files, last_run>>

\* "{YYYY}{MM:02d}{DD:02d}_{HH:02d}{mm:02d}{ss:02d}"
FormatTime(utcnow) ==
    DecStr(utcnow.year) \o Pad2(utcnow.month) \o Pad2(utcnow.day) \o <<"_">>
        \o Pad2(utcnow.hour) \o Pad2(utcnow.minute) \o Pad2(utcnow.second)

\* the value of __timestamp after get_timestamp(re_init) at time utcnow
timestamp_after(utcnow, re_init) ==
    IF re_init \/ timestamp = <<>> THEN FormatTime(utcnow) ELSE timestamp

\* get_timestamp
get_timestamp ==
    /\ pc = "idle"
    /\ \E utcnow \in Times, re_init \in BOOLEAN :
         /\ timestamp' = timestamp_after(utcnow, re_init)
         /\ outcome' = Outcome("get_timestamp", "", timestamp')
    /\ UNCHANGED <<dir, trim_empty_fields, data_schema, data_list, file_list,
                   pc, pd_file_list, pd_index, out_files, last_run>>

\* open(path, 'w') and write: the file is created or overwritten
WriteFile(files, path, lines) ==
    {p \in files : p[1] # path} \cup {<<path, lines>>}

\* 'files-{ts}.log'
list_file_name(ts) ==
    <<"f","i","l","e","s","-">> \o ts \o <<".","l","o","g">>

\* write_file_names
write_file_names ==
    /\ pc = "idle"
    /\ IF file_list # <<>>
       THEN \E utcnow \in Times :
              /\ timestamp' = timestamp_after(utcnow, FALSE)
              /\ out_files' =
                   WriteFile(out_files, list_file_name(timestamp'), file_list)
       ELSE UNCHANGED <<timestamp, out_files>>
    /\ outcome' = Outcome("write_file_names", "", <<>>)
    /\ UNCHANGED <<dir, trim_empty_fields, data_schema, data_list, file_list,
                   pc, pd_file_list, pd_index, last_run>>

\* the environment deletes one input file between two calls
RemoveFile ==
    /\ pc = "idle"
    /\ \E k \in 1..Len(dir) :
         dir' = SubSeq(dir, 1, k - 1) \o SubSeq(dir, k + 1, Len(dir))
    /\ UNCHANGED <<trim_empty_fields, data_schema, data_list, file_list,
                   timestamp, pc, pd_file_list, pd_index, outcome, out_files,
                   last_run>>

Next ==
    \/ process_directory_begin
    \/ process_file
    \/ process_directory_return
    \/ get_data
    \/ get_timestamp
    \/ write_file_names
    \/ RemoveFile

Spec == Init /\ [][Next]_vars

\* the run alone, on one file with arbitrary header lines and row
NextFields ==
    \/ process_directory_begin
    \/ process_file
    \/ process_directory_return

SpecFields == InitFields /\ [][NextFields]_vars

\* ---------------------------------------------------------- properties
\* data_schema and data_list are those of a run over the directory as it is
RunOverDir ==
    \/ pc = "processing"
    \/ last_run # <<>> /\ last_run[1].dir = dir

\* the last run read the directory as it is and returned without raising
RunReturned ==
    /\ pc = "idle"
    /\ last_run # <<>> /\ last_run[1].dir = dir
    /\ outcome = Outcome("process_directory", "", <<>>)

HeaderSchema(file_name) ==
    LET f == FileNamed(dir, file_name) IN DictZip(f.lines[1], f.lines[2])

DataRows(file_name) ==
    LET f == FileNamed(dir, file_name) IN SubSeq(f.lines, 3, Len(f.lines))

\* the position in pd_file_list of the first file of the type of file j
FirstOfType(j) ==
    CHOOSE k \in 1..j :
        /\ get_record_type(pd_file_list[k]) = get_record_type(pd_file_list[j])
        /\ \A h \in 1..(k - 1) :
             get_record_type(pd_file_list[h]) # get_record_type(pd_file_list[j])

\* the number of data rows of the files before file j of pd_file_list
RECURSIVE RowsBefore(_)
RowsBefore(j) ==
    IF j <= 1 THEN 0
    ELSE RowsBefore(j - 1) + Len(DataRows(pd_file_list[j - 1]))

\* the part of data_list that the rows of file j of pd_file_list produced
ItemsOfFile(j) ==
    SubSeq(data_list, RowsBefore(j) + 1,
           RowsBefore(j) + Len(DataRows(pd_file_list[j])))

\* the rows of file j, each zipped with the keys of schema and converted by it
RowsUnder(j, schema) ==
    LET rows == DataRows(pd_file_list[j])
    IN  [k \in 1..Len(rows) |->
            convert_values(DictZip(DictKeys(schema), rows[k]), schema,
                           trim_empty_fields)]

\* file j comes after a file of its record type whose header differs
LaterWithOtherHeader(j) ==
    /\ FirstOfType(j) < j
    /\ HeaderSchema(pd_file_list[FirstOfType(j)]) # HeaderSchema(pd_file_list[j])

\* C1: during and after a run, the schema stored for a record type is the
\* one the header lines of the first listed file of that type give; no later
\* file of the type replaces it.
C1_FirstFileSetsSchema ==
    RunOverDir =>
        \A k \in 1..Len(data_schema) :
            \E j \in 1..Len(pd_file_list) :
                /\ get_record_type(pd_file_list[j]) = data_schema[k][1]
                /\ FirstOfType(j) = j
                /\ data_schema[k][2] = HeaderSchema(pd_file_list[j])

C1_Witness ==
    /\ RunReturned
    /\ \E j \in 1..Len(pd_file_list) : LaterWithOtherHeader(j)

\* C2 as claimed: after a run, the rows of a file that follows a file of
\* its record type with another header are zipped with the field names of the
\* schema stored for the type and converted by its type tags.
C2_RowsUnderStoredSchema ==
    RunReturned =>
        \A j \in 1..Len(pd_file_list) :
            LaterWithOtherHeader(j) =>
                ItemsOfFile(j) =
                    RowsUnder(j, DictGet(data_schema,
                                         get_record_type(pd_file_list[j])))

\* C2 amended: the rows of such a file are zipped with the field names of
\* the file's own header and converted by its own type tags; the schema
\* stored for the type stays the first file's.
C2_RowsUnderOwnHeader ==
    RunReturned =>
        \A j \in 1..Len(pd_file_list) :
            LaterWithOtherHeader(j) =>
                /\ ItemsOfFile(j) = RowsUnder(j, HeaderSchema(pd_file_list[j]))
                /\ DictGet(data_schema, get_record_type(pd_file_list[j]))
                     = HeaderSchema(pd_file_list[FirstOfType(j)])

C2_Witness ==
    /\ RunReturned
    /\ \E j \in 1..Len(pd_file_list) :
         /\ LaterWithOtherHeader(j)
         /\ ItemsOfFile(j) # <<>>
         /\ RowsUnder(j, HeaderSchema(pd_file_list[j]))
              # RowsUnder(j, HeaderSchema(pd_file_list[FirstOfType(j)]))

\* C9: after a run that returns, data_list has one record per data row of
\* the matched files: those of the first listed file in row order, then
\* those of the next, a row that converts to an empty record included.
C9_OneRecordPerRowInOrder ==
    RunReturned =>
        /\ Len(data_list) = RowsBefore(Len(pd_file_list) + 1)
        /\ \A j \in 1..Len(pd_file_list) :
             \A k \in 1..Len(DataRows(pd_file_list[j])) :
                 data_list[RowsBefore(j) + k] =
                     RowsUnder(j, HeaderSchema(pd_file_list[j]))[k]

C9_Witness ==
    /\ RunReturned
    /\ Len(pd_file_list) = 2
    /\ \A j \in 1..2 : DataRows(pd_file_list[j]) # <<>>
    /\ \E k \in 1..Len(data_list) : data_list[k] = <<>>
    /\ \E k \in 1..Len(data_list) : data_list[k] # <<>>

\* C10: the keys of data_schema are among 1 and 2, since every file a run
\* reads has a name that starts with "cdr" or "cmr"; a name that starts with
\* "cmr" and contains "cdr" is keyed 1; at most two schemas are stored.
C10_SchemaKeys ==
    /\ \A k \in 1..Len(data_schema) : data_schema[k][1] \in {1, 2}
    /\ Len(data_schema) <= 2
    /\ \A j \in 1..Len(pd_file_list) :
         /\ StartsWith(pd_file_list[j], cdr) \/ StartsWith(pd_file_list[j], cmr)
         /\ get_record_type(pd_file_list[j]) # 0
    /\ RunOverDir /\ data_schema # <<>> =>
         data_schema[1][1] =
             IF Contains(pd_file_list[1], cdr) THEN 1 ELSE 2

C10_Witness ==
    /\ RunReturned
    /\ Len(data_schema) = 1
    /\ StartsWith(pd_file_list[1], cmr) /\ Contains(pd_file_list[1], cdr)
    /\ \E k \in 1..Len(dir) : ~IsRecordFile(dir[k].name)

\* C3: a run over the directory the run before it read ends with the
\* schemas and the records the run before it ended with: nothing is carried
\* over or duplicated.
C3_RerunSameResult ==
    [][(pc = "processing" /\ pc' = "idle"
            /\ last_run # <<>> /\ last_run[1].dir = dir)
         => (data_schema' = last_run[1].schemas
               /\ data_list' = last_run[1].data)]_vars

C3_Witness ==
    /\ RunReturned
    /\ last_run[1].again
    /\ Len(data_schema) = 2
    /\ Len(data_list) >= 2

\* C4 as claimed: after a run that returns, file_list holds the names that
\* run processed, each once, in listing order, and write_file_names writes
\* those names under the current timestamp.
C4_FileListOfLastRun ==
    /\ RunReturned => file_list = pd_file_list
    /\ (outcome.op = "write_file_names" /\ file_list # <<>>
            /\ last_run # <<>> /\ last_run[1].exc = "")
         => <<list_file_name(timestamp), get_file_list(last_run[1].dir)>>
                \in out_files

\* C5: get_data raises when no run has ended yet, when the last run matched
\* no file and when it accumulated no record; when the last run accumulated
\* a record it returns that run's records and schemas.
C5_GetDataRaisesWithoutData ==
    outcome.op = "get_data" =>
        /\ last_run = <<>> => outcome.exc = "Exception"
        /\ last_run # <<>> /\ get_file_list(last_run[1].dir) = <<>>
             => outcome.exc = "Exception"
        /\ last_run # <<>> /\ last_run[1].data = <<>>
             => outcome.exc = "Exception"
        /\ last_run # <<>> /\ last_run[1].data # <<>>
             => outcome = Outcome("get_data", "",
                    << <<KEY_DATA, last_run[1].data>>,
                       <<KEY_SCHEMAS, last_run[1].schemas>> >>)

C5_Witness ==
    /\ outcome = Outcome("get_data", "Exception", <<>>)
    /\ last_run # <<>>
    /\ get_file_list(last_run[1].dir) = <<>>
    /\ last_run[1].after_data

\* the data rows of a matched file before its first line that does not decode
RowsKept(file_name) ==
    LET f == FileNamed(dir, file_name)
    IN  IF f.bad = 0 THEN Len(f.lines) - 2 ELSE f.bad - 3

RECURSIVE RowsKeptUpTo(_)
RowsKeptUpTo(j) ==
    IF j = 0 THEN 0 ELSE RowsKeptUpTo(j - 1) + RowsKept(pd_file_list[j])

\* C6 as claimed: when both header lines of every matched file are read, a
\* run returns without raising even if a data row of some file does not
\* decode, with the rows before that row kept and the files listed after
\* that file processed.
C6_DecodeFailureContained ==
    (/\ pc = "idle"
     /\ last_run # <<>> /\ last_run[1].dir = dir
     /\ outcome.op = "process_directory"
     /\ \A j \in 1..Len(pd_file_list) :
          LET f == FileNamed(dir, pd_file_list[j])
          IN  Len(f.lines) >= 2 /\ f.bad \notin {1, 2})
    => /\ outcome.exc = ""
       /\ Len(data_list) = RowsKeptUpTo(Len(pd_file_list))

\* ------------------------------------------- properties under SpecFields
\* the header lines and the data row of the one file of SpecFields
header_name_list == dir[1].lines[1]
header_type_list == dir[1].lines[2]
TheRow == dir[1].lines[3]
HeaderLength == Min(Len(header_name_list), Len(header_type_list))

\* int(value) for the raw values that parse
ParsedValues ==
    << <<<<"0">>, 0>>, <<<<"4","2">>, 42>>, <<<<"-","7">>, 0 - 7>> >>

\* C7: every field of a row is converted by the policy: with trimming, "0"
\* and "" leave the field out; else under a tag containing INTEGER a text
\* that parses gives its integer, "" gives None and any other text leaves
\* the field out; else the raw text is kept.  No error is raised.
C7_CoercionPolicy ==
    /\ outcome.op = "process_directory" => outcome.exc = ""
    /\ RunReturned =>
         LET schema == DictGet(data_schema, 1)
             in_dict == DictZip(DictKeys(schema), TheRow)
             out == data_list[1]
         IN  /\ Len(data_list) = 1
             /\ \A k \in 1..Len(out) : DictHas(in_dict, out[k][1])
             /\ \A k \in 1..Len(in_dict) :
                  LET key == in_dict[k][1]
                      value == in_dict[k][2]
                  IN  IF trim_empty_fields /\ value \in {<<"0">>, <<>>}
                      THEN ~DictHas(out, key)
                      ELSE IF Contains(DictGet(schema, key), INTEGER)
                      THEN IF DictHas(ParsedValues, value)
                           THEN /\ DictHas(out, key)
                                /\ DictGet(out, key) =
                                     IntValue(DictGet(ParsedValues, value))
                           ELSE IF value = <<>>
                           THEN /\ DictHas(out, key)
                                /\ DictGet(out, key) = NoneValue
                           ELSE ~DictHas(out, key)
                      ELSE /\ DictHas(out, key)
                           /\ DictGet(out, key) = StrValue(value)
             /\ (/\ header_name_list = <<id, name>>
                 /\ header_type_list = <<INTEGER, STRINGTAG>>
                 /\ TheRow = <<<<>>, alice>>)
                => out = IF trim_empty_fields
                         THEN << <<name, StrValue(alice)>> >>
                         ELSE << <<id, NoneValue>>, <<name, StrValue(alice)>> >>

C7_Witness ==
    /\ RunReturned
    /\ trim_empty_fields
    /\ header_name_list = <<id, name>>
    /\ header_type_list = <<INTEGER, STRINGTAG>>
    /\ TheRow = <<<<>>, alice>>
    /\ data_list = << << <<name, StrValue(alice)>> >> >>

\* C8 as claimed: the schema of a file pairs the i-th name with the i-th
\* type tag and has as many entries as the shorter header line, also when a
\* name occurs twice.
C8_SchemaPairsByPosition ==
    RunReturned =>
        LET schema == DictGet(data_schema, 1)
        IN  /\ Len(schema) = HeaderLength
            /\ \A k \in 1..HeaderLength :
                 schema[k] = <<header_name_list[k], header_type_list[k]>>

\* the first and the last position of the name at position k within the
\* part of the name line that has a type tag
FirstPosition(k) ==
    CHOOSE j \in 1..k :
        /\ header_name_list[j] = header_name_list[k]
        /\ \A h \in 1..(j - 1) : header_name_list[h] # header_name_list[k]
LastPosition(k) ==
    CHOOSE j \in k..HeaderLength :
        /\ header_name_list[j] = header_name_list[k]
        /\ \A h \in (j + 1)..HeaderLength :
             header_name_list[h] # header_name_list[k]

\* C8 amended: the schema has one entry for each distinct name among the
\* names that have a type tag, in the order the names first appear, each
\* with the type tag at the last position of the name; so when these names
\* are distinct the i-th name is paired with the i-th type tag and the
\* schema has as many entries as the shorter header line.
C8_SchemaOfDistinctNames ==
    RunReturned =>
        LET schema == DictGet(data_schema, 1)
            firsts == {k \in 1..HeaderLength : FirstPosition(k) = k}
        IN  /\ Len(schema) = Cardinality(firsts)
            /\ \A k \in firsts :
                 schema[Cardinality({j \in firsts : j <= k})] =
                     <<header_name_list[k], header_type_list[LastPosition(k)]>>
            /\ Cardinality(firsts) = HeaderLength =>
                 /\ Len(schema) = HeaderLength
                 /\ \A k \in 1..HeaderLength :
                      schema[k] = <<header_name_list[k], header_type_list[k]>>

C8_Witness ==
    /\ RunReturned
    /\ header_name_list = <<id, id>>
    /\ header_type_list = <<INTEGER, STRINGTAG>>
    /\ data_schema = << <<1, << <<id, STRINGTAG>> >> >> >>

====
